---- MODULE Spec2Model ----
(***************************************************************************)
(* Model of uvw's Stream<T> (src/uvw/stream.hpp): the write / shutdown     *)
(* requests with their weak-reference relay, the read-completion           *)
(* translator and its buffer ownership, and tryWrite.                       *)
(*                                                                         *)
(* One Stream is modelled.  `owners` is the strong reference count of the  *)
(* Stream, `reqs` the details::Write / details::Shutdown requests created  *)
(* so far, `events` the bag of events published on the Stream itself,      *)
(* `heap` the buffers that cross the native boundary, `reads` the read     *)
(* completions the loop has produced, `tries` the tryWrite calls, `calls`  *)
(* the number of read() / stop() / listen() calls, `listening` and         *)
(* `backlog` the native listen state, `conns` the incoming-connection      *)
(* notifications, `queries` the readable() / writable() calls, `addrs`     *)
(* the address() calls.  `stopped` records that stop() has succeeded on a  *)
(* reading Stream and read() has not been called since.                    *)
(***************************************************************************)
EXTENDS Integers, Sequences, FiniteSets, Bags, TLC

VARIABLES owners, reqs, events, heap, reads, reading, tries, calls,
          listening, backlog, conns, queries, addrs, stopped

vars == <<owners, reqs, events, heap, reads, reading, tries, calls,
          listening, backlog, conns, queries, addrs, stopped>>

(* ------------------------------ bounds -------------------------------- *)
MaxOwners == 2      \* external shared_ptr holders of the Stream
MaxOps    == 3      \* operations issued in one run (calls and native reads)

(* --------------------------- native values ---------------------------- *)
UV_EOF == -4095

DEFAULT_BACKLOG == 128

Statuses == {-1, 0}               \* status of a native call or completion
NReads   == {UV_EOF, -1, 0, 1, 2} \* nread handed to the read callback
TryResults == {-1, 0, 2}          \* result of uv_try_write
Backlogs == {512}                 \* backlog passed to listen(int)
Answers  == {0, 1}                \* result of uv_is_readable / uv_is_writable
Names    == {"127.0.0.1"}         \* name written by the name function
Ports    == {8080}                \* port of the socket, in host byte order

(* ------------------------------ events -------------------------------- *)
\* An event published on the Stream.  src/id name the operation it belongs
\* to: ("req", i) request i, ("read", k) read completion k, ("try", t)
\* tryWrite call t, ("invoke", c) the c-th read()/stop() call.
Event(type, code, src, id, buf, len) ==
    [type |-> type, code |-> code, src |-> src, id |-> id, buf |-> buf, len |-> len]

\* Emitter::publish on the Stream: the event reaches the Stream's listeners.
publish(evs, e) == evs (+) SetToBag({e})

(* ------------------------------- heap --------------------------------- *)
\* A buffer is named by the operation it was allocated for: <<"req", i>>,
\* <<"read", k>>, <<"try", t>>; NoBuf is the null pointer.  The heap maps
\* a buffer to its state (live or freed) and the number of deletes.
NoBuf == <<>>

NewBuf == [state |-> "live", frees |-> 0]

Alloc(h, b) == h @@ (b :> NewBuf)

\* delete[] of b; deleting the null pointer does nothing.
Free(h, b) == IF b = NoBuf THEN h
              ELSE [h EXCEPT ![b] = [state |-> "freed", frees |-> @.frees + 1]]

(* ------------------------------ requests ------------------------------ *)
\* The capture list of the relay lambda, [weak]: a weak reference to the
\* Stream and nothing else (the request reaches it as a parameter).
\* Faulty variant: the lambda captures the shared_ptr of the Stream.
capturesSharedStream == {"sharedStream"}

\* Faulty variant: the lambda also captures the shared_ptr of the request.
capturesRequest == {"weakStream", "request"}

captures == {"weakStream"}

\* A freshly created request (loop().resource<details::Write/Shutdown>()).
\* `issued` counts the native calls made with it, `fired` its completions,
\* `dropped` the events its relay dropped because lock() failed.
NewReq(kind, buf, owned) ==
    [kind |-> kind, onError |-> FALSE, onSuccess |-> FALSE,
     pending |-> FALSE, selfRef |-> FALSE, result |-> 0, status |-> 0,
     fired |-> 0, dropped |-> 0, buf |-> buf, owned |-> owned,
     captures |-> captures, issued |-> 0]

\* A request is alive after its issuing call has returned (the local
\* shared_ptr is gone) while it holds its self reference, or while one of
\* its registered listeners holds a shared_ptr to it.
ReqAlive(req) ==
    \/ req.selfRef
    \/ "request" \in req.captures /\ (req.onError \/ req.onSuccess)

\* A registered listener of a live request keeps what it captured.
HoldsStream(req) ==
    /\ "sharedStream" \in req.captures
    /\ req.onError \/ req.onSuccess
    /\ ReqAlive(req)

\* weak.lock(): succeeds iff the Stream still has a strong owner.
lock(n) == n > 0

\* The relay lambda of Stream::write / Stream::shutdown: `listener`.
\* Faulty variant: publishes through the raw pointer without locking.
listenerNoLock(evs, n, e) == publish(evs, e)

\* Faulty variant: relays only the success event.
listenerSuccessOnly(evs, n, e) ==
    IF lock(n) /\ e.type # "ErrorEvent" THEN publish(evs, e) ELSE evs

listener(evs, n, e) == IF lock(n) THEN publish(evs, e) ELSE evs

\* write->once<ErrorEvent>(listener); write->once<WriteEvent>(listener);
\* Faulty variant: the ErrorEvent relay is not registered.
WriteListenersNoError(req) == [req EXCEPT !.onSuccess = TRUE]

WriteListeners(req) == [req EXCEPT !.onError = TRUE, !.onSuccess = TRUE]

\* shutdown->once<ErrorEvent>(listener); shutdown->once<ShutdownEvent>(listener);
\* Faulty variant: the ErrorEvent relay is not registered.
ShutdownListenersNoError(req) == [req EXCEPT !.onSuccess = TRUE]

\* Faulty variant: the ShutdownEvent relay is not registered.
ShutdownListenersNoSuccess(req) == [req EXCEPT !.onError = TRUE]

ShutdownListeners(req) == [req EXCEPT !.onError = TRUE, !.onSuccess = TRUE]

\* The success event type of exec<uv_write_t, WriteEvent> and
\* exec<uv_shutdown_t, ShutdownEvent>.
SuccessEvent(kind) == IF kind = "write" THEN "WriteEvent" ELSE "ShutdownEvent"

\* Emitter::publish on the Request: a one-shot listener registered for the
\* event's type is removed and invoked; the listener is the relay.
reqPublish(req, id, type, code, evs, n) ==
    LET registered == IF type = "ErrorEvent" THEN req.onError ELSE req.onSuccess
        consumed   == IF type = "ErrorEvent" THEN [req EXCEPT !.onError = FALSE]
                                             ELSE [req EXCEPT !.onSuccess = FALSE]
    IN  IF registered
        THEN [req |-> [consumed EXCEPT !.dropped = @ + (IF lock(n) THEN 0 ELSE 1)],
              events |-> listener(evs, n, Event(type, code, "req", id, NoBuf, 0))]
        ELSE [req |-> req, events |-> evs]

\* Request::exec: issue the native call.  A non-zero result is published
\* as an ErrorEvent at once; otherwise the request keeps itself alive and a
\* completion is pending.
exec(req, id, r, evs, n) ==
    IF r # 0
    THEN reqPublish([req EXCEPT !.result = r, !.issued = @ + 1], id, "ErrorEvent", r, evs, n)
    ELSE [req |-> [req EXCEPT !.pending = TRUE, !.selfRef = TRUE, !.issued = @ + 1],
          events |-> evs]

\* details::Write::write and details::Shutdown::shutdown
\* Faulty variant: the native write is issued a second time.
Write_writeTwice(req, id, r, evs, n) ==
    LET first == exec(req, id, r, evs, n)
    IN  exec(first.req, id, r, first.events, n)

Write_write(req, id, r, evs, n) == exec(req, id, r, evs, n)

Shutdown_shutdown(req, id, r, evs, n) == exec(req, id, r, evs, n)

(* ------------------------------- reads -------------------------------- *)
\* Handle::allocCallback: the buffer the native layer fills for one read.
\* Every call supplies a newly allocated buffer.
allocCallback(h, k) == Alloc(h, <<"read", k>>)

\* readCallback, the event it publishes for (nread, buf) of completion k.
\* Faulty variant: the UV_EOF test is missing.
readEventNoEof(nread, b, k) ==
    IF nread > 0 THEN Event("DataEvent", 0, "read", k, b, nread)
    ELSE Event("ErrorEvent", nread, "read", k, NoBuf, 0)

\* Faulty variant: the DataEvent length is off by one.
readEventBufLen(nread, b, k) ==
    IF nread = UV_EOF THEN Event("EndEvent", 0, "read", k, NoBuf, 0)
    ELSE IF nread > 0 THEN Event("DataEvent", 0, "read", k, b, nread + 1)
    ELSE Event("ErrorEvent", nread, "read", k, NoBuf, 0)

readEvent(nread, b, k) ==
    IF nread = UV_EOF THEN Event("EndEvent", 0, "read", k, NoBuf, 0)
    ELSE IF nread > 0 THEN Event("DataEvent", 0, "read", k, b, nread)
    ELSE Event("ErrorEvent", nread, "read", k, NoBuf, 0)

\* readCallback: is the unique_ptr `data` moved into the DataEvent?  If it
\* is not, its destructor deletes the buffer when readCallback returns.
\* Faulty variant: the DataEvent gets a copy of the pointer, not the move.
dataMovedNever(nread) == FALSE

dataMoved(nread) == nread # UV_EOF /\ nread > 0

(* ------------------------------ tryWrite ------------------------------- *)
\* tryWrite: the value returned for the native result bw.
\* Faulty variant: the negative result is returned as it is.
tryWriteRetRaw(bw) == bw

tryWriteRet(bw) == IF bw < 0 THEN 0 ELSE bw

\* tryWrite: the events on the Stream after the native result bw of call t.
tryWritePublish(evs, bw, t) ==
    IF bw < 0 THEN publish(evs, Event("ErrorEvent", bw, "try", t, NoBuf, 0)) ELSE evs

(* ------------------------------- listen -------------------------------- *)
\* listenCallback, the event it publishes for the status of notification c.
\* Faulty variant: the status test is inverted.
listenEventInverted(status, c) ==
    IF status = 0 THEN Event("ErrorEvent", status, "listen", c, NoBuf, 0)
    ELSE Event("ListenEvent", 0, "listen", c, NoBuf, 0)

listenEvent(status, c) ==
    IF status # 0 THEN Event("ErrorEvent", status, "listen", c, NoBuf, 0)
    ELSE Event("ListenEvent", 0, "listen", c, NoBuf, 0)

(* ------------------------------- queries ------------------------------- *)
\* readable() / writable(): the native answer compared with 1.
isOne(v) == v = 1

(* ------------------------------- address ------------------------------- *)
\* ntohs / htons on a little-endian host: the two bytes are swapped.
ntohs(x) == (x % 256) * 256 + (x \div 256)

htons(x) == (x % 256) * 256 + (x \div 256)

\* address(): err is the result of the get-address function f, nameErr
\* the result of Traits::NameFunc (called only when f succeeded), name the
\* text it wrote and sinPort the sin_port field of the socket address.
\* Faulty variant: the result of the name function is not tested.
addressResultNoNameCheck(err, nameErr, name, sinPort) ==
    IF err = 0
    THEN [name |-> IF nameErr = 0 THEN name ELSE "?", port |-> ntohs(sinPort)]
    ELSE [name |-> "", port |-> 0]

addressResult(err, nameErr, name, sinPort) ==
    IF err = 0 /\ nameErr = 0
    THEN [name |-> name, port |-> ntohs(sinPort)]
    ELSE [name |-> "", port |-> 0]

(* ------------------------------ read / stop ---------------------------- *)
\* stop(): uv_read_stop with result r turns the native reading state rd off.
\* Faulty variant: stop() leaves the Stream reading.
stopReadingNoop(r, rd) == rd

stopReading(r, rd) == IF r = 0 THEN FALSE ELSE rd

(* ------------------------------- invoke -------------------------------- *)
\* Handle::invoke: a non-zero result of the native call is published as an
\* ErrorEvent on the Stream.
invoke(evs, r, c) ==
    IF r # 0 THEN publish(evs, Event("ErrorEvent", r, "invoke", c, NoBuf, 0)) ELSE evs

(* ------------------------------- state -------------------------------- *)
\* The strong reference count of the Stream: its external holders and the
\* live relay lambdas that captured a shared_ptr to it.
StrongCount ==
    owners + Cardinality({i \in DOMAIN reqs : HoldsStream(reqs[i])})

\* Operations issued so far.
Ops == Len(reqs) + Len(reads) + Len(tries) + calls
       + Len(conns) + Len(queries) + Len(addrs)

Init ==
    /\ owners = 1
    /\ reqs = <<>>
    /\ events = EmptyBag
    /\ heap = <<>>
    /\ reads = <<>>
    /\ reading = FALSE
    /\ tries = <<>>
    /\ calls = 0
    /\ listening = FALSE
    /\ backlog = 0
    /\ conns = <<>>
    /\ queries = <<>>
    /\ addrs = <<>>
    /\ stopped = FALSE

\* Another holder copies the shared_ptr to the Stream.
Share ==
    /\ owners > 0
    /\ owners < MaxOwners
    /\ owners' = owners + 1
    /\ UNCHANGED <<reqs, events, heap, reads, reading, tries, calls, listening, backlog, conns, queries, addrs, stopped>>

\* A holder releases the Stream; the last release destroys it.
Release ==
    /\ owners > 0
    /\ owners' = owners - 1
    /\ UNCHANGED <<reqs, events, heap, reads, reading, tries, calls, listening, backlog, conns, queries, addrs, stopped>>

\* Stream::write(char *data, ssize_t length): the caller keeps the buffer.
write(r) ==
    /\ owners > 0
    /\ Ops < MaxOps
    /\ LET id  == Len(reqs) + 1
           b   == <<"req", id>>
           res == Write_write(WriteListeners(NewReq("write", b, FALSE)), id, r, events, StrongCount)
       IN  /\ reqs' = Append(reqs, res.req)
           /\ events' = res.events
           /\ heap' = Alloc(heap, b)
    /\ UNCHANGED <<owners, reads, reading, tries, calls, listening, backlog, conns, queries, addrs, stopped>>

\* Stream::write(std::unique_ptr<char[]> data, ssize_t length): the buffer
\* is moved into the parameter, write(data.get(), length) runs, and the
\* parameter is destroyed when the call returns.
write_unique(r) ==
    /\ owners > 0
    /\ Ops < MaxOps
    /\ LET id  == Len(reqs) + 1
           b   == <<"req", id>>
           res == Write_write(WriteListeners(NewReq("write", b, TRUE)), id, r, events, StrongCount)
       IN  /\ reqs' = Append(reqs, res.req)
           /\ events' = res.events
           /\ heap' = Free(Alloc(heap, b), b)
    /\ UNCHANGED <<owners, reads, reading, tries, calls, listening, backlog, conns, queries, addrs, stopped>>

\* Stream::shutdown()
shutdown(r) ==
    /\ owners > 0
    /\ Ops < MaxOps
    /\ LET id  == Len(reqs) + 1
           res == Shutdown_shutdown(ShutdownListeners(NewReq("shutdown", NoBuf, FALSE)), id, r, events, StrongCount)
       IN  /\ reqs' = Append(reqs, res.req)
           /\ events' = res.events
    /\ UNCHANGED <<owners, heap, reads, reading, tries, calls, listening, backlog, conns, queries, addrs, stopped>>

\* The loop fires the completion of request i with the given status
\* (Request's completion callback): the request drops its self reference
\* and publishes the success event or an ErrorEvent on itself.
Complete(i, status) ==
    /\ i \in DOMAIN reqs
    /\ reqs[i].pending
    /\ LET req1 == [reqs[i] EXCEPT !.pending = FALSE, !.selfRef = FALSE,
                                   !.status = status, !.fired = @ + 1]
           res  == IF status # 0
                   THEN reqPublish(req1, i, "ErrorEvent", status, events, StrongCount)
                   ELSE reqPublish(req1, i, SuccessEvent(req1.kind), 0, events, StrongCount)
       IN  /\ reqs' = [reqs EXCEPT ![i] = res.req]
           /\ events' = res.events
    /\ UNCHANGED <<owners, heap, reads, reading, tries, calls, listening, backlog, conns, queries, addrs, stopped>>

\* Stream::read(): uv_read_start through invoke.
read(r) ==
    /\ owners > 0
    /\ Ops < MaxOps
    /\ calls' = calls + 1
    /\ events' = invoke(events, r, calls + 1)
    /\ reading' = IF r = 0 THEN TRUE ELSE reading
    /\ stopped' = FALSE
    /\ UNCHANGED <<owners, reqs, heap, reads, tries, listening, backlog, conns, queries, addrs>>

\* Stream::stop(): uv_read_stop through invoke.
stop(r) ==
    /\ owners > 0
    /\ Ops < MaxOps
    /\ calls' = calls + 1
    /\ events' = invoke(events, r, calls + 1)
    /\ reading' = stopReading(r, reading)
    /\ stopped' = IF r = 0 /\ reading THEN TRUE ELSE stopped
    /\ UNCHANGED <<owners, reqs, heap, reads, tries, listening, backlog, conns, queries, addrs>>

\* The native layer, while the Stream is reading, calls the allocation
\* callback, fills the buffer and queues a read completion with nread.
\* A failed read (nread < 0) may also be reported without a buffer.
NativeRead(nread, withBuf) ==
    /\ owners > 0
    /\ reading
    /\ Ops < MaxOps
    /\ withBuf \/ nread < 0
    /\ LET k == Len(reads) + 1
       IN  /\ heap' = IF withBuf THEN allocCallback(heap, k) ELSE heap
           /\ reads' = Append(reads, [buf |-> IF withBuf THEN <<"read", k>> ELSE NoBuf,
                                      nread |-> nread, done |-> FALSE, late |-> FALSE])
    /\ UNCHANGED <<owners, reqs, events, reading, tries, calls, listening, backlog, conns, queries, addrs, stopped>>

\* Stream::readCallback for the oldest queued read completion k; `late`
\* records that it ran after stop().
\* Faulty variant: an error or end of stream also stops the reading.
readCallbackStopsOnError(k) ==
    /\ owners > 0
    /\ k \in DOMAIN reads
    /\ ~reads[k].done
    /\ \A j \in 1..(k - 1) : reads[j].done
    /\ events' = publish(events, readEvent(reads[k].nread, reads[k].buf, k))
    /\ heap' = IF dataMoved(reads[k].nread) THEN heap ELSE Free(heap, reads[k].buf)
    /\ reads' = [reads EXCEPT ![k].done = TRUE, ![k].late = stopped]
    /\ reading' = IF reads[k].nread > 0 THEN reading ELSE FALSE
    /\ UNCHANGED <<owners, reqs, tries, calls, listening, backlog, conns, queries, addrs, stopped>>

readCallback(k) ==
    /\ owners > 0
    /\ k \in DOMAIN reads
    /\ ~reads[k].done
    /\ \A j \in 1..(k - 1) : reads[j].done
    /\ events' = publish(events, readEvent(reads[k].nread, reads[k].buf, k))
    /\ heap' = IF dataMoved(reads[k].nread) THEN heap ELSE Free(heap, reads[k].buf)
    /\ reads' = [reads EXCEPT ![k].done = TRUE, ![k].late = stopped]
    /\ UNCHANGED <<owners, reqs, reading, tries, calls, listening, backlog, conns, queries, addrs, stopped>>

\* Stream::tryWrite(char *data, ssize_t length)
tryWrite(bw) ==
    /\ owners > 0
    /\ Ops < MaxOps
    /\ tries' = Append(tries, [bw |-> bw, ret |-> tryWriteRet(bw), buf |-> NoBuf])
    /\ events' = tryWritePublish(events, bw, Len(tries) + 1)
    /\ UNCHANGED <<owners, reqs, heap, reads, reading, calls, listening, backlog, conns, queries, addrs, stopped>>

\* Stream::tryWrite(std::unique_ptr<char[]> data, ssize_t length): the
\* buffer is destroyed with the parameter when the call returns.
tryWrite_unique(bw) ==
    /\ owners > 0
    /\ Ops < MaxOps
    /\ LET t == Len(tries) + 1
       IN  /\ tries' = Append(tries, [bw |-> bw, ret |-> tryWriteRet(bw), buf |-> <<"try", t>>])
           /\ events' = tryWritePublish(events, bw, t)
           /\ heap' = Free(Alloc(heap, <<"try", t>>), <<"try", t>>)
    /\ UNCHANGED <<owners, reqs, reads, reading, calls, listening, backlog, conns, queries, addrs, stopped>>

\* Stream::listen(int backlog): uv_listen through invoke.
listen(b, r) ==
    /\ owners > 0
    /\ Ops < MaxOps
    /\ calls' = calls + 1
    /\ events' = invoke(events, r, calls + 1)
    /\ listening' = IF r = 0 THEN TRUE ELSE listening
    /\ backlog' = IF r = 0 THEN b ELSE backlog
    /\ UNCHANGED <<owners, reqs, heap, reads, reading, tries, conns, queries, addrs, stopped>>

\* Stream::listen(): listen(DEFAULT_BACKLOG)
listen_default(r) == listen(DEFAULT_BACKLOG, r)

\* Stream::listenCallback: the native layer reports an incoming connection
\* (or a failure to take one) on the listening Stream.
listenCallback(status) ==
    /\ owners > 0
    /\ listening
    /\ Ops < MaxOps
    /\ conns' = Append(conns, status)
    /\ events' = publish(events, listenEvent(status, Len(conns) + 1))
    /\ UNCHANGED <<owners, reqs, heap, reads, reading, tries, calls, listening, backlog, queries, addrs, stopped>>

\* Stream::readable(), v the answer of uv_is_readable
\* Faulty variant: the native call goes through invoke like the others, so
\* a non-zero answer is published as an ErrorEvent.
readableInvoke(v) ==
    /\ owners > 0
    /\ Ops < MaxOps
    /\ queries' = Append(queries, [fn |-> "readable", native |-> v, ret |-> isOne(v)])
    /\ events' = invoke(events, v, Len(queries) + 1)
    /\ UNCHANGED <<owners, reqs, heap, reads, reading, tries, calls, listening, backlog, conns, addrs, stopped>>

readable(v) ==
    /\ owners > 0
    /\ Ops < MaxOps
    /\ queries' = Append(queries, [fn |-> "readable", native |-> v, ret |-> isOne(v)])
    /\ UNCHANGED <<owners, reqs, events, heap, reads, reading, tries, calls, listening, backlog, conns, addrs, stopped>>

\* Stream::writable(), v the answer of uv_is_writable
writable(v) ==
    /\ owners > 0
    /\ Ops < MaxOps
    /\ queries' = Append(queries, [fn |-> "writable", native |-> v, ret |-> isOne(v)])
    /\ UNCHANGED <<owners, reqs, events, heap, reads, reading, tries, calls, listening, backlog, conns, addrs, stopped>>

\* Stream::address(f): f reports err and, on success, the socket address
\* of a socket bound to `name` and host-order port `port`; the name
\* function reports nameErr.
address(err, nameErr, name, port) ==
    /\ owners > 0
    /\ Ops < MaxOps
    /\ addrs' = Append(addrs, [err |-> err, nameErr |-> nameErr, name |-> name, port |-> port,
                               ret |-> addressResult(err, nameErr, name, htons(port))])
    /\ UNCHANGED <<owners, reqs, events, heap, reads, reading, tries, calls, listening, backlog, conns, queries, stopped>>

Next ==
    \/ \E b \in Backlogs, r \in Statuses : listen(b, r)
    \/ \E r \in Statuses : listen_default(r)
    \/ \E st \in Statuses : listenCallback(st)
    \/ \E v \in Answers : readable(v)
    \/ \E v \in Answers : writable(v)
    \/ \E e1 \in Statuses, e2 \in Statuses, nm \in Names, pt \in Ports : address(e1, e2, nm, pt)
    \/ Share
    \/ Release
    \/ \E r \in Statuses : write(r)
    \/ \E r \in Statuses : write_unique(r)
    \/ \E r \in Statuses : shutdown(r)
    \/ \E i \in 1..MaxOps, s \in Statuses : Complete(i, s)
    \/ \E r \in Statuses : read(r)
    \/ \E r \in Statuses : stop(r)
    \/ \E n \in NReads, wb \in BOOLEAN : NativeRead(n, wb)
    \/ \E k \in 1..MaxOps : readCallback(k)
    \/ \E bw \in TryResults : tryWrite(bw)
    \/ \E bw \in TryResults : tryWrite_unique(bw)

Spec == Init /\ [][Next]_vars

\* The loop dispatches every pending completion: weak fairness of the
\* completion of each request.
FairSpec ==
    Spec /\ \A i \in 1..MaxOps : WF_vars(\E st \in Statuses : Complete(i, st))

(* ------------------------------ properties ----------------------------- *)
\* Number of events of the given type published on the Stream for
\* operation (src, id).
NumEvents(type, src, id) ==
    BagCardinality([e \in {x \in DOMAIN events :
                              x.type = type /\ x.src = src /\ x.id = id} |-> events[e]])

\* Number of events of any type published on the Stream for (src, id).
NumAll(src, id) ==
    BagCardinality([e \in {x \in DOMAIN events : x.src = src /\ x.id = id} |-> events[e]])

\* Number of DataEvents on the Stream that hold buffer b.
NumData(b) ==
    BagCardinality([e \in {x \in DOMAIN events :
                              x.type = "DataEvent" /\ x.buf = b} |-> events[e]])

\* The ErrorEvents published for (src, id) all carry the given code.
ErrorCode(src, id, code) ==
    \A e \in DOMAIN events :
        (e.type = "ErrorEvent" /\ e.src = src /\ e.id = id) => e.code = code

\* A request whose completion fired while the Stream was alive: the relay's
\* weak.lock() succeeded (nothing was dropped).
FiredAlive(i) == reqs[i].fired = 1 /\ reqs[i].dropped = 0

\* C1: a write whose completion fires while the Stream is alive gives the
\* Stream exactly one WriteEvent and no ErrorEvent when the status is 0,
\* and exactly one ErrorEvent carrying the status and no WriteEvent when
\* the status is not 0.
C1_WriteOutcome ==
    \A i \in DOMAIN reqs :
        (reqs[i].kind = "write" /\ FiredAlive(i)) =>
            IF reqs[i].status = 0
            THEN /\ NumEvents("WriteEvent", "req", i) = 1
                 /\ NumEvents("ErrorEvent", "req", i) = 0
            ELSE /\ NumEvents("ErrorEvent", "req", i) = 1
                 /\ ErrorCode("req", i, reqs[i].status)
                 /\ NumEvents("WriteEvent", "req", i) = 0

C1_Witness ==
    /\ \E i \in DOMAIN reqs :
          /\ reqs[i].kind = "write" /\ FiredAlive(i) /\ reqs[i].status = -1
          /\ NumEvents("ErrorEvent", "req", i) = 1
    /\ \E i \in DOMAIN reqs :
          /\ reqs[i].kind = "write" /\ FiredAlive(i) /\ reqs[i].status = 0
          /\ NumEvents("WriteEvent", "req", i) = 1

\* C2: once the Stream is destroyed no step publishes an event on it, and
\* a request whose completion fired after the destruction (the relay's
\* lock failed) has delivered nothing to the Stream.
C2_NoEventAfterDestroy ==
    [][ /\ (owners = 0 => events' = events)
        /\ \A i \in DOMAIN reqs' :
              reqs'[i].dropped > 0 => NumAll("req", i)' = 0 ]_vars

C2_Witness ==
    /\ owners = 0
    /\ \E i \in DOMAIN reqs :
          reqs[i].kind = "write" /\ reqs[i].fired = 1 /\ reqs[i].dropped = 1
    /\ \E i \in DOMAIN reqs :
          reqs[i].kind = "shutdown" /\ reqs[i].fired = 1 /\ reqs[i].dropped = 1

\* C3: the buffer of a write issued through the unique_ptr overload is
\* live for as long as the native write is pending.
C3_OwnedBufferLiveWhilePending ==
    \A i \in DOMAIN reqs :
        (reqs[i].owned /\ reqs[i].pending) => heap[reqs[i].buf].state = "live"

\* C4: after readCallback has handled a read completion, its buffer was
\* either deleted once and is in no DataEvent, or never deleted and is in
\* exactly one DataEvent; before that it is untouched.
C4_ReadBufferOnce ==
    \A k \in DOMAIN reads :
        reads[k].buf # NoBuf =>
            LET f == heap[reads[k].buf].frees
                d == NumData(reads[k].buf)
            IN  IF reads[k].done
                THEN (f = 1 /\ d = 0) \/ (f = 0 /\ d = 1)
                ELSE f = 0 /\ d = 0

C4_Witness ==
    /\ \E k \in DOMAIN reads :
          /\ reads[k].done /\ reads[k].nread > 0
          /\ heap[reads[k].buf].frees = 0 /\ NumData(reads[k].buf) = 1
    /\ \E k \in DOMAIN reads :
          /\ reads[k].done /\ reads[k].nread <= 0 /\ reads[k].buf # NoBuf
          /\ heap[reads[k].buf].frees = 1

\* C5: a handled read completion has published exactly one event, and for
\* nread = UV_EOF that event is an EndEvent.
C5_ReadOneEvent ==
    \A k \in DOMAIN reads :
        reads[k].done =>
            /\ NumAll("read", k) = 1
            /\ reads[k].nread = UV_EOF =>
                  /\ NumEvents("EndEvent", "read", k) = 1
                  /\ NumEvents("DataEvent", "read", k) = 0
                  /\ NumEvents("ErrorEvent", "read", k) = 0

C5_Witness ==
    \E k \in DOMAIN reads :
        /\ reads[k].done /\ reads[k].nread = UV_EOF
        /\ NumEvents("EndEvent", "read", k) = 1

\* C6: every ErrorEvent of a read completion belongs to a negative nread
\* other than UV_EOF and carries it; nread = 0 publishes no ErrorEvent.
C6_ReadErrorOnlyNegative ==
    \A e \in DOMAIN events :
        (e.type = "ErrorEvent" /\ e.src = "read") =>
            /\ reads[e.id].nread < 0
            /\ reads[e.id].nread # UV_EOF
            /\ e.code = reads[e.id].nread

\* C7: every DataEvent comes from a read completion with nread > 0, holds
\* the buffer the allocation callback supplied for it and the length
\* nread; every such completion gives one; no buffer is in two DataEvents.
C7_DataEventBuffer ==
    /\ \A e \in DOMAIN events :
          e.type = "DataEvent" =>
              /\ e.src = "read" /\ e.id \in DOMAIN reads
              /\ reads[e.id].done /\ reads[e.id].nread > 0
              /\ e.buf = reads[e.id].buf /\ e.buf # NoBuf
              /\ e.len = reads[e.id].nread
              /\ NumData(e.buf) = 1
    /\ \A k \in DOMAIN reads :
          (reads[k].done /\ reads[k].nread > 0) => NumEvents("DataEvent", "read", k) = 1

C7_Witness ==
    \E e1 \in DOMAIN events, e2 \in DOMAIN events :
        /\ e1.type = "DataEvent" /\ e2.type = "DataEvent"
        /\ e1.buf # e2.buf /\ e1.len = 1 /\ e2.len = 2

\* C8: tryWrite returns 0 and publishes one ErrorEvent carrying the result
\* when the native result is negative, returns the result and publishes
\* nothing otherwise, and never returns a negative value.
C8_TryWrite ==
    \A t \in DOMAIN tries :
        /\ tries[t].ret >= 0
        /\ IF tries[t].bw < 0
           THEN /\ tries[t].ret = 0
                /\ NumAll("try", t) = 1
                /\ NumEvents("ErrorEvent", "try", t) = 1
                /\ ErrorCode("try", t, tries[t].bw)
           ELSE /\ tries[t].ret = tries[t].bw
                /\ NumAll("try", t) = 0

C8_Witness ==
    /\ \E t \in DOMAIN tries : tries[t].bw = -1 /\ tries[t].ret = 0
    /\ \E t \in DOMAIN tries : tries[t].bw = 2 /\ tries[t].ret = 2

\* C9: a shutdown whose completion fires while the Stream is alive gives
\* the Stream exactly one outcome event: a ShutdownEvent for status 0, an
\* ErrorEvent carrying the status otherwise.
C9_ShutdownOutcome ==
    \A i \in DOMAIN reqs :
        (reqs[i].kind = "shutdown" /\ FiredAlive(i)) =>
            /\ NumAll("req", i) = 1
            /\ IF reqs[i].status = 0
               THEN NumEvents("ShutdownEvent", "req", i) = 1
               ELSE /\ NumEvents("ErrorEvent", "req", i) = 1
                    /\ ErrorCode("req", i, reqs[i].status)

C9_Witness ==
    /\ \E i \in DOMAIN reqs :
          /\ reqs[i].kind = "shutdown" /\ FiredAlive(i) /\ reqs[i].status = 0
          /\ NumEvents("ShutdownEvent", "req", i) = 1
    /\ \E i \in DOMAIN reqs :
          /\ reqs[i].kind = "shutdown" /\ FiredAlive(i) /\ reqs[i].status = -1
          /\ NumEvents("ErrorEvent", "req", i) = 1

\* C10: a write or shutdown whose native call fails when issued has, as
\* soon as the call has returned, published exactly one ErrorEvent carrying
\* the result on the Stream and no success event, and no completion is
\* pending for its request (none ever fires).
C10_SyncFailure ==
    \A i \in DOMAIN reqs :
        reqs[i].result # 0 =>
            /\ ~reqs[i].pending /\ ~reqs[i].selfRef /\ reqs[i].fired = 0
            /\ NumAll("req", i) = 1
            /\ NumEvents("ErrorEvent", "req", i) = 1
            /\ ErrorCode("req", i, reqs[i].result)

C10_Witness ==
    /\ \E i \in DOMAIN reqs :
          /\ reqs[i].kind = "write" /\ reqs[i].result = -1
          /\ NumEvents("ErrorEvent", "req", i) = 1
    /\ \E i \in DOMAIN reqs :
          /\ reqs[i].kind = "shutdown" /\ reqs[i].result = -1
          /\ NumEvents("ErrorEvent", "req", i) = 1

\* C11: the strong reference count of the Stream is the number of its
\* external holders, whatever requests are pending; in particular the
\* Stream is destroyed (count 0) once the last holder released it.
C11_WeakOnly == StrongCount = owners

C11_Witness ==
    /\ owners = 0
    /\ StrongCount = 0
    /\ \E i \in DOMAIN reqs : reqs[i].kind = "write" /\ reqs[i].pending
    /\ \E i \in DOMAIN reqs : reqs[i].kind = "shutdown" /\ reqs[i].pending

\* C12: every incoming-connection notification of a listening Stream has
\* published exactly one event: a ListenEvent for status 0, an ErrorEvent
\* carrying the status otherwise.
C12_ListenOutcome ==
    \A c \in DOMAIN conns :
        /\ NumAll("listen", c) = 1
        /\ IF conns[c] = 0
           THEN NumEvents("ListenEvent", "listen", c) = 1
           ELSE /\ NumEvents("ErrorEvent", "listen", c) = 1
                /\ ErrorCode("listen", c, conns[c])

C12_Witness ==
    /\ listening /\ backlog = 512
    /\ \E c \in DOMAIN conns : conns[c] = 0 /\ NumEvents("ListenEvent", "listen", c) = 1
    /\ \E c \in DOMAIN conns : conns[c] = -1 /\ NumEvents("ErrorEvent", "listen", c) = 1

\* C14: address() returns ("", 0) when the get-address function or the
\* name function fails and the name and host-order port of the socket when
\* both succeed; an address() call leaves the Stream's events unchanged.
C14_Address ==
    /\ [](\A a \in DOMAIN addrs :
             IF addrs[a].err = 0 /\ addrs[a].nameErr = 0
             THEN addrs[a].ret = [name |-> addrs[a].name, port |-> addrs[a].port]
             ELSE addrs[a].ret = [name |-> "", port |-> 0])
    /\ [][Len(addrs') > Len(addrs) => events' = events]_vars

C14_Witness ==
    /\ \E a \in DOMAIN addrs : addrs[a].err = 0 /\ addrs[a].nameErr = 0 /\ addrs[a].ret.port = 8080
    /\ \E a \in DOMAIN addrs : addrs[a].err = 0 /\ addrs[a].nameErr = -1 /\ addrs[a].ret.name = ""
    /\ \E a \in DOMAIN addrs : addrs[a].err = -1 /\ addrs[a].ret.name = ""

\* C15: a readable() or writable() call changes nothing but the record of
\* the call itself: no event, no request, no change of the reading or
\* listening state.
C15_QueriesPure ==
    [][Len(queries') > Len(queries) =>
          UNCHANGED <<owners, reqs, events, heap, reads, reading, tries, calls,
                      listening, backlog, conns, addrs, stopped>>]_vars

C15_Witness ==
    /\ reading
    /\ \E i \in DOMAIN reqs : reqs[i].pending
    /\ \E q \in DOMAIN queries : queries[q].native = 1 /\ queries[q].ret

\* C16: every request was used for exactly one native call, its completion
\* fired at most once and the Stream got at most one event for it; the
\* write outcome events on the Stream are at most as many as the writes.
C16_OneShot ==
    /\ \A i \in DOMAIN reqs :
          /\ reqs[i].issued = 1
          /\ reqs[i].fired <= 1
          /\ NumAll("req", i) <= 1
    /\ BagCardinality([e \in {x \in DOMAIN events :
                                 x.src = "req" /\ reqs[x.id].kind = "write"} |-> events[e]])
          <= Cardinality({i \in DOMAIN reqs : reqs[i].kind = "write"})

C16_Witness ==
    /\ Cardinality({i \in DOMAIN reqs : reqs[i].kind = "write" /\ reqs[i].fired = 1
                                          /\ NumAll("req", i) = 1}) >= 2
    /\ \E i \in DOMAIN reqs : reqs[i].kind = "write" /\ reqs[i].result # 0

\* C17: after the issuing call has returned, a request is alive exactly
\* while its completion is pending, whether or not the Stream is alive.
C17_RequestLifetime ==
    \A i \in DOMAIN reqs : ReqAlive(reqs[i]) <=> reqs[i].pending

C17_Witness ==
    /\ owners = 0
    /\ \E i \in DOMAIN reqs : reqs[i].pending /\ ReqAlive(reqs[i])
    /\ \E i \in DOMAIN reqs : reqs[i].fired = 1 /\ reqs[i].dropped = 1 /\ ~ReqAlive(reqs[i])
    /\ \E i \in DOMAIN reqs : reqs[i].result # 0 /\ ~ReqAlive(reqs[i])

\* C18: while stop() has succeeded and read() has not been called again,
\* no new read completion is queued and every read event published belongs
\* to a completion that was already queued; a stop() call leaves the queued
\* completions as they are.
C18_StopHaltsReads ==
    [][ /\ stopped =>
              /\ Len(reads') = Len(reads)
              /\ \A e \in DOMAIN events' :
                    (e.src = "read" /\ e \notin DOMAIN events) => e.id \in DOMAIN reads
        /\ (stopped' /\ ~stopped) => reads' = reads ]_vars

C18_Witness ==
    /\ stopped
    /\ \E k \in DOMAIN reads : reads[k].done /\ reads[k].late /\ NumAll("read", k) = 1

\* C19: a step that publishes an ErrorEvent on the Stream leaves the
\* reading and listening state and the Stream's holders unchanged and makes
\* no native call beyond the one of the operation issued in that step;
\* every request has made exactly one native call.
NativeCalls ==
    Len(tries) + calls
    + BagCardinality([i \in DOMAIN reqs |-> reqs[i].issued])

NumErrors ==
    BagCardinality([e \in {x \in DOMAIN events : x.type = "ErrorEvent"} |-> events[e]])

C19_NoRetryNoClose ==
    /\ [](\A i \in DOMAIN reqs : reqs[i].issued = 1)
    /\ [][NumErrors' > NumErrors =>
             /\ reading' = reading
             /\ listening' = listening
             /\ owners' = owners
             /\ NativeCalls' - NativeCalls =
                   (Len(reqs') - Len(reqs)) + (Len(tries') - Len(tries)) + (calls' - calls)]_vars

C19_Witness ==
    /\ reading
    /\ \E k \in DOMAIN reads : reads[k].done /\ NumEvents("ErrorEvent", "read", k) = 1
    /\ \E i \in DOMAIN reqs : reqs[i].fired = 1 /\ NumEvents("ErrorEvent", "req", i) = 1

\* C20: on a live Stream a shutdown is pending exactly while no outcome
\* event has been delivered for it, and under fair dispatch of completions
\* every pending shutdown stops being pending, with its ShutdownEvent or
\* ErrorEvent delivered to the Stream unless the Stream was destroyed.
ShuttingDown(i) ==
    i \in DOMAIN reqs /\ reqs[i].kind = "shutdown" /\ reqs[i].pending

C20_ShutdownTerminates ==
    /\ [](\A i \in DOMAIN reqs :
             (reqs[i].kind = "shutdown" /\ owners > 0) =>
                 (reqs[i].pending <=> NumAll("req", i) = 0))
    /\ \A i \in 1..MaxOps :
          ShuttingDown(i) ~>
              (/\ i \in DOMAIN reqs
               /\ ~reqs[i].pending
               /\ (owners = 0 \/ NumEvents("ShutdownEvent", "req", i)
                                  + NumEvents("ErrorEvent", "req", i) = 1))

C20_Witness ==
    /\ owners > 0
    /\ \E i \in DOMAIN reqs :
          /\ reqs[i].kind = "shutdown" /\ reqs[i].fired = 1 /\ ~reqs[i].pending
          /\ NumAll("req", i) = 1

====
